---- MODULE Spec2Model ----
(***************************************************************************)
(* A model of the gomiddleware/mux router (src/mux.go, the revision with   *)
(* USE prefix entries and per-entry middleware chains, lines 393-750).     *)
(*                                                                         *)
(* Strings are sequences of one-character strings, so that the slicing,    *)
(* splitting and comparing the code does is computed and not assumed.      *)
(* A middleware or handler value is identified by the position it had in   *)
(* the argument list of the registration call that supplied it.            *)
(***************************************************************************)
EXTENDS Integers, Sequences, FiniteSets, TLC

VARIABLES
    routes,   \* Mux.routes: the registry, a sequence of Route records
    ret,      \* what the most recent registration call gave back to its caller
    call,     \* the call of add its caller has not yet moved on from:
              \* its arguments and what it returned
    reqs      \* the requests being served: one record per ServeHTTP activation

vars == <<routes, ret, call, reqs>>

----------------------------------------------------------------------------
(* Bounds of the model                                                     *)

MaxRoutes == 2
MaxThings == 3

----------------------------------------------------------------------------
(* Strings                                                                 *)

\* Go's s[lo:hi]
Slice(s, lo, hi) == SubSeq(s, lo + 1, hi)

\* Go's s[lo:]
SliceFrom(s, lo) == SubSeq(s, lo + 1, Len(s))

HasSuffix(s, suffix) ==
    /\ Len(s) >= Len(suffix)
    /\ SubSeq(s, Len(s) - Len(suffix) + 1, Len(s)) = suffix

RECURSIVE SplitFrom(_, _, _, _, _)
SplitFrom(s, sep, k, cur, out) ==
    IF k > Len(s) THEN Append(out, cur)
    ELSE IF s[k] = sep THEN SplitFrom(s, sep, k + 1, <<>>, Append(out, cur))
    ELSE SplitFrom(s, sep, k + 1, Append(cur, s[k]), out)

\* strings.Split(s, sep) for a one-character separator
Split(s, sep) == SplitFrom(s, sep, 1, <<>>, <<>>)

RECURSIVE Join(_, _)
Join(elems, sep) ==
    IF Len(elems) = 0 THEN <<>>
    ELSE IF Len(elems) = 1 THEN elems[1]
    ELSE elems[1] \o <<sep>> \o Join(Tail(elems), sep)

Dot == <<".">>
DotDot == <<".", ".">>

RECURSIVE CleanElems(_, _, _, _)
CleanElems(elems, k, out, rooted) ==
    IF k > Len(elems) THEN out
    ELSE LET e == elems[k] IN
         IF e = <<>> \/ e = Dot THEN CleanElems(elems, k + 1, out, rooted)
         ELSE IF e = DotDot
              THEN IF Len(out) > 0 /\ out[Len(out)] # DotDot
                   THEN CleanElems(elems, k + 1, SubSeq(out, 1, Len(out) - 1), rooted)
                   ELSE IF rooted
                        THEN CleanElems(elems, k + 1, out, rooted)
                        ELSE CleanElems(elems, k + 1, Append(out, DotDot), rooted)
              ELSE CleanElems(elems, k + 1, Append(out, e), rooted)

\* path.Clean: drop empty and "." elements, resolve "..", keep the root
Clean(p) ==
    IF p = <<>> THEN Dot
    ELSE LET rooted == p[1] = "/"
             body   == Join(CleanElems(Split(p, "/"), 1, <<>>, rooted), "/")
             out    == IF rooted THEN <<"/">> \o body ELSE body
         IN  IF out = <<>> THEN Dot ELSE out

----------------------------------------------------------------------------
(* Inputs                                                                  *)

GetPaths ==
    { <<"/", "a">>,
      <<"/", "a", "/">>,
      <<"/", "a", "/", ":", "x">>,
      <<"/", ":", "x", "/", ":", "x">>,
      <<"a">> }

PostPaths == { <<"/", "a", "/", ":", "x">>, <<"a", "/">> }

UsePaths ==
    { <<"/">>,
      <<"/", "a">>,
      <<"/", "a", "/">>,
      <<"/", "a", "/", ":", "x">>,
      <<"a">> }

\* the paths Put, Patch, Delete, Options and Head are called with
VerbPaths == { <<"/", "a", "/", ":", "x">>, <<"a">> }

\* the dynamic types an item of a registration call can have
ThingKinds == {"middleware", "Handler", "HandlerFunc", "nil", "middlewareSlice"}

RECURSIVE SeqsUpTo(_, _)
SeqsUpTo(S, n) ==
    IF n = 0 THEN {<<>>}
    ELSE LET shorter == SeqsUpTo(S, n - 1)
         IN  shorter \cup {Append(s, x) : s \in {t \in shorter : Len(t) = n - 1}, x \in S}

ThingLists == SeqsUpTo(ThingKinds, MaxThings)

\* the longest raw URL path of the requests that exercise the normalization
MaxPathLen == 6

\* the characters of those paths
PathChars == {"/", ".", "a"}

\* every raw URL path of up to MaxPathLen characters, rooted or not, the
\* empty path included
AnyPaths == SeqsUpTo(PathChars, MaxPathLen)

RequestMethods == {"GET", "POST"}

RequestPaths ==
    { <<"/">>,
      <<"/", "a">>,
      <<"/", "a", "/">>,
      <<"/", "a", "/", "b">>,
      <<"/", "a", "/", "b", "/">>,
      <<"/", "a", "/", "b", "/", "c">>,
      <<"/", "b">>,
      <<"/", "a", "/", ".", ".", "/", "b">>,
      <<"/", "/">>,
      <<"/", "a", "/", "/", "b">>,
      <<"/", "a", "/", ".", "/">>,
      <<"/", "a", "/", ".">>,
      <<"/", ".", ".">> }

----------------------------------------------------------------------------
(* Registration                                                            *)

NilHandler == 0

Route(method, path, segments, middlewares, handler) ==
    [ Method      |-> method,
      Path        |-> path,
      Segments    |-> segments,
      Length      |-> Len(segments),
      Middlewares |-> middlewares,
      Handler     |-> handler ]

\* the loop of add with one error for both ordering rules
RECURSIVE addThingsOneError(_, _, _, _)
addThingsOneError(things, k, handler, middlewares) ==
    IF k > Len(things)
    THEN [err |-> "nil", handler |-> handler, middlewares |-> middlewares]
    ELSE IF things[k] = "middleware"
         THEN IF handler # NilHandler
              THEN [err |-> "ErrMultipleHandlers", handler |-> handler,
                    middlewares |-> middlewares]
              ELSE addThingsOneError(things, k + 1, handler,
                                     Append(middlewares, k))
         ELSE IF things[k] \in {"Handler", "HandlerFunc"}
              THEN IF handler # NilHandler
                   THEN [err |-> "ErrMultipleHandlers", handler |-> handler,
                         middlewares |-> middlewares]
                   ELSE addThingsOneError(things, k + 1, k, middlewares)
              ELSE [err |-> "ErrUnknownTypeInRoute", handler |-> handler,
                    middlewares |-> middlewares]

\* the loop of add over the items: the first offending item decides the error
RECURSIVE addThings(_, _, _, _)
addThings(things, k, handler, middlewares) ==
    IF k > Len(things)
    THEN [err |-> "nil", handler |-> handler, middlewares |-> middlewares]
    ELSE IF things[k] = "middleware"
         THEN IF handler # NilHandler
              THEN [err |-> "ErrMiddlewareAfterHandler", handler |-> handler,
                    middlewares |-> middlewares]
              ELSE addThings(things, k + 1, handler, Append(middlewares, k))
         ELSE IF things[k] \in {"Handler", "HandlerFunc"}
              THEN IF handler # NilHandler
                   THEN [err |-> "ErrMultipleHandlers", handler |-> handler,
                         middlewares |-> middlewares]
                   ELSE addThings(things, k + 1, k, middlewares)
              ELSE [err |-> "ErrUnknownTypeInRoute", handler |-> handler,
                    middlewares |-> middlewares]

\* add installing the route before it looks at what the items gave
addInstallsFirst(rs, method, path, things) ==
    IF path = <<>> \/ path[1] # "/"
    THEN [err |-> "panic", routes |-> rs]
    ELSE LET segments == SliceFrom(Split(path, "/"), 1)
             items    == addThings(things, 1, NilHandler, <<>>)
         IN  [err |-> items.err,
              routes |-> Append(rs, Route(method, path, segments,
                                          items.middlewares, items.handler))]

\* add validating the items before it looks at the path
addValidatesFirst(rs, method, path, things) ==
    LET items == addThings(things, 1, NilHandler, <<>>)
    IN  IF items.err # "nil"
        THEN [err |-> items.err, routes |-> rs]
        ELSE IF path = <<>> \/ path[1] # "/"
             THEN [err |-> "panic", routes |-> rs]
             ELSE [err |-> "nil",
                   routes |-> Append(rs, Route(method, path,
                                               SliceFrom(Split(path, "/"), 1),
                                               items.middlewares, items.handler))]

\* add putting the new route in front of the others
addPrepends(rs, method, path, things) ==
    IF path = <<>> \/ path[1] # "/"
    THEN [err |-> "panic", routes |-> rs]
    ELSE LET segments == SliceFrom(Split(path, "/"), 1)
             items    == addThings(things, 1, NilHandler, <<>>)
         IN  IF items.err # "nil"
             THEN [err |-> items.err, routes |-> rs]
             ELSE [err |-> "nil",
                   routes |-> <<Route(method, path, segments,
                                      items.middlewares, items.handler)>> \o rs]

\* Mux.add: the registry after the call and what the call gives back
add(rs, method, path, things) ==
    IF path = <<>> \/ path[1] # "/"
    THEN [err |-> "panic", routes |-> rs]
    ELSE LET segments == SliceFrom(Split(path, "/"), 1)
             items    == addThings(things, 1, NilHandler, <<>>)
         IN  IF items.err # "nil"
             THEN [err |-> items.err, routes |-> rs]
             ELSE [err |-> "nil",
                   routes |-> Append(rs, Route(method, path, segments,
                                               items.middlewares, items.handler))]

----------------------------------------------------------------------------
(* Matching                                                                *)

RECURSIVE prefixSegments(_, _, _)
prefixSegments(segments, route, k) ==
    IF k > Len(route.Segments) THEN TRUE
    ELSE LET segment == route.Segments[k] IN
         IF segment = <<>> /\ segments[k] = <<>>
         THEN prefixSegments(segments, route, k + 1)
         ELSE IF Slice(segment, 0, 0) = <<":">>
              THEN prefixSegments(segments, route, k + 1)
              ELSE IF segments[k] # segment
                   THEN FALSE
                   ELSE prefixSegments(segments, route, k + 1)

\* isPrefixMatch asking for as many segments as the pattern has
isPrefixMatchSameLength(segments, route) ==
    IF route.Length = 1 /\ route.Segments[1] = <<>> THEN TRUE
    ELSE IF route.Length # Len(segments) THEN FALSE
    ELSE prefixSegments(segments, route, 1)

isPrefixMatch(segments, route) ==
    IF route.Length = 1 /\ route.Segments[1] = <<>> THEN TRUE
    ELSE IF route.Length > Len(segments) THEN FALSE
    ELSE prefixSegments(segments, route, 1)

\* a map[string]string: isNil tells the nil map from an empty one
NilMap == [isNil |-> TRUE, m |-> [n \in {} |-> <<>>]]
EmptyMap == [isNil |-> FALSE, m |-> [n \in {} |-> <<>>]]

MapSet(vals, name, value) ==
    [vals EXCEPT !.m = [n \in (DOMAIN vals.m) \cup {name} |->
                            IF n = name THEN value ELSE vals.m[n]]]

\* matchSegments with the placeholder bound under its whole segment, colon
\* included
RECURSIVE matchSegmentsKeepColon(_, _, _, _)
matchSegmentsKeepColon(segments, route, k, vals) ==
    IF k > Len(route.Segments) THEN [vals |-> vals, ok |-> TRUE]
    ELSE LET segment == route.Segments[k] IN
         IF segment = <<>> /\ segments[k] = <<>>
         THEN matchSegmentsKeepColon(segments, route, k + 1, vals)
         ELSE IF segment # <<>> /\ Slice(segment, 0, 1) = <<":">>
              THEN matchSegmentsKeepColon(segments, route, k + 1,
                                          MapSet(vals, segment, segments[k]))
              ELSE IF segments[k] # segment
                   THEN [vals |-> NilMap, ok |-> FALSE]
                   ELSE matchSegmentsKeepColon(segments, route, k + 1, vals)

RECURSIVE matchSegments(_, _, _, _)
matchSegments(segments, route, k, vals) ==
    IF k > Len(route.Segments) THEN [vals |-> vals, ok |-> TRUE]
    ELSE LET segment == route.Segments[k] IN
         IF segment = <<>> /\ segments[k] = <<>>
         THEN matchSegments(segments, route, k + 1, vals)
         ELSE IF segment # <<>> /\ Slice(segment, 0, 1) = <<":">>
              THEN matchSegments(segments, route, k + 1,
                                 MapSet(vals, SliceFrom(segment, 1), segments[k]))
              ELSE IF segments[k] # segment
                   THEN [vals |-> NilMap, ok |-> FALSE]
                   ELSE matchSegments(segments, route, k + 1, vals)

\* isMatch that only refuses a route longer than the request
isMatchNoLongerThan(method, segments, route) ==
    IF route.Method # method THEN [vals |-> NilMap, ok |-> FALSE]
    ELSE IF route.Length > Len(segments) THEN [vals |-> NilMap, ok |-> FALSE]
    ELSE matchSegments(segments, route, 1, EmptyMap)

isMatch(method, segments, route) ==
    IF route.Method # method THEN [vals |-> NilMap, ok |-> FALSE]
    ELSE IF route.Length # Len(segments) THEN [vals |-> NilMap, ok |-> FALSE]
    ELSE matchSegments(segments, route, 1, EmptyMap)

----------------------------------------------------------------------------
(* Dispatch                                                                *)

StatusFound == 302

\* the value under valsIdKey in the request's context: has is FALSE while
\* no value was stored
NoCtx == [has |-> FALSE, vals |-> NilMap]

WithVals(vals) == [has |-> TRUE, vals |-> vals]

\* what an observer of the dispatch sees, in order
Ev(type, route, idx, fn, ok, ctx, to, code) ==
    [type |-> type, route |-> route, idx |-> idx, fn |-> fn, ok |-> ok,
     ctx |-> ctx, to |-> to, code |-> code]

IdleReq ==
    [ pc       |-> "idle",
      method   |-> "",
      path     |-> <<>>,
      segments |-> <<>>,
      i        |-> 0,
      j        |-> 0,
      finished |-> FALSE,
      ctx      |-> NoCtx,
      trace    |-> <<>> ]

\* NormPath without the trailing slash put back
NormPathCleanOnly(p) == Clean(p)

\* NormPath putting a trailing slash on every path
NormPathAddsSlash(p) ==
    LET normPath == Clean(p)
    IN  IF normPath # <<"/">> THEN normPath \o <<"/">> ELSE normPath

\* NormPath as the removal of one trailing slash
NormPathTrimsSlash(p) ==
    IF Len(p) > 1 /\ HasSuffix(p, <<"/">>) THEN SubSeq(p, 1, Len(p) - 1) ELSE p

\* the normalized path of ServeHTTP
NormPath(p) ==
    LET normPath == Clean(p)
    IN  IF normPath # <<"/">>
        THEN IF HasSuffix(p, <<"/">>) THEN normPath \o <<"/">> ELSE normPath
        ELSE normPath

\* ServeHTTP up to the loop over the routes
Begin(method, path) ==
    LET normPath == NormPath(path)
        rq == [IdleReq EXCEPT !.method = method, !.path = path]
    IN  IF normPath # path
        THEN [rq EXCEPT !.pc = "done",
                        !.trace = <<Ev("redirect", 0, 0, 0, FALSE, NoCtx,
                                       normPath, StatusFound)>>]
        ELSE [rq EXCEPT !.pc = "scan",
                        !.segments = SliceFrom(Split(normPath, "/"), 1),
                        !.i = 1]

\* RunChain that ends the dispatch at a matched route without a handler
RunChainStopsAtMatch(rq, route, j) ==
    IF j <= Len(route.Middlewares)
    THEN [rq EXCEPT !.pc = "mw", !.j = j, !.finished = TRUE,
                    !.trace = Append(@, Ev("middleware", rq.i, j,
                                           route.Middlewares[j], FALSE, rq.ctx,
                                           <<>>, 0))]
    ELSE IF route.Handler # NilHandler
         THEN [rq EXCEPT !.pc = "done",
                         !.trace = Append(@, Ev("handler", rq.i, 0, route.Handler,
                                                FALSE, rq.ctx, <<>>, 0))]
         ELSE [rq EXCEPT !.pc = "done",
                         !.trace = Append(@, Ev("notfound", 0, 0, 0, FALSE, rq.ctx,
                                                <<>>, 0))]

\* the chain of a matched route from its middleware j on: call middleware j,
\* or after the last one the handler, or with no handler go on to the next
\* route
RunChain(rq, route, j) ==
    IF j <= Len(route.Middlewares)
    THEN [rq EXCEPT !.pc = "mw", !.j = j, !.finished = TRUE,
                    !.trace = Append(@, Ev("middleware", rq.i, j,
                                           route.Middlewares[j], FALSE, rq.ctx,
                                           <<>>, 0))]
    ELSE IF route.Handler # NilHandler
         THEN [rq EXCEPT !.pc = "done",
                         !.trace = Append(@, Ev("handler", rq.i, 0, route.Handler,
                                                FALSE, rq.ctx, <<>>, 0))]
         ELSE [rq EXCEPT !.pc = "scan", !.i = @ + 1, !.j = 0]

\* NotFound that returns without writing a response
NotFoundSilent(rq) == [rq EXCEPT !.pc = "done"]

\* the loop over the routes ended without a return: http.NotFound
NotFound(rq) ==
    [rq EXCEPT !.pc = "done",
               !.trace = Append(@, Ev("notfound", 0, 0, 0, FALSE, rq.ctx, <<>>, 0))]

\* TestRoute keeping the bindings in one place for all the requests
TestRouteSharedVals(rq, rs) ==
    IF rq.i > Len(rs)
    THEN NotFound(rq)
    ELSE LET route == rs[rq.i]
             res == IF route.Method = "USE"
                    THEN [matched |-> isPrefixMatch(rq.segments, route),
                          ctx |-> reqs[1].ctx]
                    ELSE LET m == isMatch(rq.method, rq.segments, route)
                         IN  [matched |-> m.ok, ctx |-> WithVals(m.vals)]
             tested == [rq EXCEPT !.ctx = res.ctx,
                                  !.trace = Append(@, Ev("test", rq.i, 0, 0,
                                                         res.matched, res.ctx,
                                                         <<>>, 0))]
         IN  IF res.matched
             THEN RunChain(tested, route, 1)
             ELSE [tested EXCEPT !.i = @ + 1]

\* one iteration of the loop over the routes, up to the first call it makes
TestRoute(rq, rs) ==
    IF rq.i > Len(rs)
    THEN NotFound(rq)
    ELSE LET route == rs[rq.i]
             res == IF route.Method = "USE"
                    THEN [matched |-> isPrefixMatch(rq.segments, route),
                          ctx |-> rq.ctx]
                    ELSE LET m == isMatch(rq.method, rq.segments, route)
                         IN  [matched |-> m.ok, ctx |-> WithVals(m.vals)]
             tested == [rq EXCEPT !.ctx = res.ctx,
                                  !.trace = Append(@, Ev("test", rq.i, 0, 0,
                                                         res.matched, res.ctx,
                                                         <<>>, 0))]
         IN  IF res.matched
             THEN RunChain(tested, route, 1)
             ELSE [tested EXCEPT !.i = @ + 1]

\* next as classic chaining has it: invoking it runs the handler of the route
nextRunsHandler(rq) ==
    [rq EXCEPT !.finished = FALSE,
               !.trace = IF rq.finished
                         THEN @ \o <<Ev("next", rq.i, rq.j, 0, FALSE, rq.ctx, <<>>, 0),
                                     Ev("handler", rq.i, 0, routes[rq.i].Handler,
                                        FALSE, rq.ctx, <<>>, 0)>>
                         ELSE @]

\* the synthetic next handed to a middleware
next(rq) ==
    [rq EXCEPT !.finished = FALSE,
               !.trace = IF rq.finished
                         THEN Append(@, Ev("next", rq.i, rq.j, 0, FALSE, rq.ctx,
                                           <<>>, 0))
                         ELSE @]

\* AfterMiddleware that goes on whatever the middleware signalled
AfterMiddlewareAlwaysContinues(rq, rs) ==
    RunChain([rq EXCEPT !.trace = Append(@, Ev("return", rq.i, rq.j, 0,
                                               ~rq.finished, rq.ctx, <<>>, 0))],
             rs[rq.i], rq.j + 1)

\* the middleware's handler has returned
AfterMiddleware(rq, rs) ==
    LET route == rs[rq.i]
        back  == [rq EXCEPT !.trace = Append(@, Ev("return", rq.i, rq.j, 0,
                                                   ~rq.finished, rq.ctx, <<>>, 0))]
    IN  IF rq.finished
        THEN [back EXCEPT !.pc = "done"]
        ELSE RunChain(back, route, rq.j + 1)

----------------------------------------------------------------------------
(* Actions                                                                 *)

Serving == \E r \in DOMAIN reqs : reqs[r].pc # "idle"

\* the caller has moved on from its last call of add
NoCall == [method |-> "", path |-> <<>>, things |-> <<>>, err |-> "none"]

\* registration happens while no request is being served (spec section 5),
\* one call after the other
CanRegister == ~Serving /\ Len(routes) < MaxRoutes /\ call = NoCall

Register(method, path, things, returnsErr) ==
    /\ LET res == add(routes, method, path, things)
       IN  /\ routes' = res.routes
           /\ ret' = IF res.err = "panic" \/ returnsErr THEN res.err ELSE "void"
           /\ call' = [method |-> method, path |-> path, things |-> things,
                       err |-> res.err]
    /\ UNCHANGED reqs

Get ==
    /\ CanRegister
    /\ \E path \in GetPaths, things \in ThingLists :
           Register("GET", path, things, TRUE)

Post ==
    /\ CanRegister
    /\ \E path \in PostPaths, things \in ThingLists :
           Register("POST", path, things, FALSE)

Put ==
    /\ CanRegister
    /\ \E path \in VerbPaths, things \in ThingLists :
           Register("PUT", path, things, FALSE)

Patch ==
    /\ CanRegister
    /\ \E path \in VerbPaths, things \in ThingLists :
           Register("PATCH", path, things, FALSE)

Delete ==
    /\ CanRegister
    /\ \E path \in VerbPaths, things \in ThingLists :
           Register("DELETE", path, things, FALSE)

Options ==
    /\ CanRegister
    /\ \E path \in VerbPaths, things \in ThingLists :
           Register("OPTIONS", path, things, FALSE)

\* Mux.Head (Head itself is the operator of Sequences)
MuxHead ==
    /\ CanRegister
    /\ \E path \in VerbPaths, things \in ThingLists :
           Register("HEAD", path, things, FALSE)

Use ==
    /\ CanRegister
    /\ \E path \in UsePaths, things \in ThingLists :
           Register("USE", path, things, TRUE)

\* the registration call is over: its caller goes on with what it got back
Return ==
    /\ call # NoCall
    /\ call' = NoCall
    /\ UNCHANGED <<routes, ret, reqs>>

\* ServeHTTP gives nothing back: no registration result is pending once a
\* request is being served
ServeHTTP(r) ==
    /\ reqs[r].pc = "idle"
    /\ call = NoCall
    /\ \E method \in RequestMethods, path \in RequestPaths :
           reqs' = [reqs EXCEPT ![r] = Begin(method, path)]
    /\ ret' = "none"
    /\ UNCHANGED <<routes, call>>

RouteStep(r) ==
    /\ reqs[r].pc = "scan"
    /\ reqs' = [reqs EXCEPT ![r] = TestRoute(reqs[r], routes)]
    /\ UNCHANGED <<routes, ret, call>>

CallNext(r) ==
    /\ reqs[r].pc = "mw"
    /\ reqs' = [reqs EXCEPT ![r] = next(reqs[r])]
    /\ UNCHANGED <<routes, ret, call>>

MiddlewareReturn(r) ==
    /\ reqs[r].pc = "mw"
    /\ reqs' = [reqs EXCEPT ![r] = AfterMiddleware(reqs[r], routes)]
    /\ UNCHANGED <<routes, ret, call>>

\* ServeHTTP has returned; the request record is discarded
Complete(r) ==
    /\ reqs[r].pc = "done"
    /\ reqs' = [reqs EXCEPT ![r] = IdleReq]
    /\ UNCHANGED <<routes, ret, call>>

Init ==
    /\ routes = <<>>
    /\ ret = "none"
    /\ call = NoCall
    /\ reqs = <<IdleReq>>

Next ==
    \/ Get
    \/ Post
    \/ Use
    \/ Return
    \/ \E r \in DOMAIN reqs : ServeHTTP(r)
    \/ \E r \in DOMAIN reqs : RouteStep(r)
    \/ \E r \in DOMAIN reqs : CallNext(r)
    \/ \E r \in DOMAIN reqs : MiddlewareReturn(r)
    \/ \E r \in DOMAIN reqs : Complete(r)

\* requests served over registries built with Get, Post and Use
Spec == Init /\ [][Next]_vars

\* the whole registration surface, before any request is served
RegNext ==
    \/ Get
    \/ Post
    \/ Put
    \/ Patch
    \/ Delete
    \/ Options
    \/ MuxHead
    \/ Use
    \/ Return

RegSpec == Init /\ [][RegNext]_vars

\* a request being served keeps running: its goroutine is scheduled, and the
\* middleware it calls are taken to return
\* the registry a program has built with a sequence of registration calls
RECURSIVE Built(_)
Built(calls) ==
    IF calls = <<>> THEN <<>>
    ELSE LET c == calls[Len(calls)]
         IN  add(Built(SubSeq(calls, 1, Len(calls) - 1)),
                 c.method, c.path, c.things).routes

\* the registration calls of the programs that serve requests concurrently
ConcPrograms ==
    { << [method |-> "GET", path |-> <<"/", "a", "/", ":", "x">>,
          things |-> <<"middleware", "middleware", "Handler">>] >>,
      << [method |-> "USE", path |-> <<"/">>,
          things |-> <<"middleware">>],
         [method |-> "GET", path |-> <<"/", "a", "/", ":", "x">>,
          things |-> <<"middleware", "HandlerFunc">>] >>,
      << [method |-> "GET", path |-> <<"/", ":", "x", "/", ":", "x">>,
          things |-> <<"middleware">>],
         [method |-> "USE", path |-> <<"/", "a">>,
          things |-> <<"middleware", "Handler">>] >>,
      << [method |-> "GET", path |-> <<"/", "a">>,
          things |-> <<"Handler">>],
         [method |-> "POST", path |-> <<"/", "a", "/", ":", "x">>,
          things |-> <<"middleware">>] >> }

\* the router is built; net/http serves two requests, each in its goroutine
ConcInit ==
    /\ routes \in {Built(calls) : calls \in ConcPrograms}
    /\ ret = "none"
    /\ call = NoCall
    /\ reqs = <<IdleReq, IdleReq>>

ConcNext ==
    \/ \E r \in DOMAIN reqs : ServeHTTP(r)
    \/ \E r \in DOMAIN reqs : RouteStep(r)
    \/ \E r \in DOMAIN reqs : CallNext(r)
    \/ \E r \in DOMAIN reqs : MiddlewareReturn(r)
    \/ \E r \in DOMAIN reqs : Complete(r)

ConcSpec == ConcInit /\ [][ConcNext]_vars

\* ServeHTTP called with any raw URL path
ServeHTTPAnyPath(r) ==
    /\ reqs[r].pc = "idle"
    /\ call = NoCall
    /\ \E method \in RequestMethods, path \in AnyPaths :
           reqs' = [reqs EXCEPT ![r] = Begin(method, path)]
    /\ ret' = "none"
    /\ UNCHANGED <<routes, call>>

\* requests of every path, served by a router without entries
NormNext ==
    \/ \E r \in DOMAIN reqs : ServeHTTPAnyPath(r)
    \/ \E r \in DOMAIN reqs : RouteStep(r)
    \/ \E r \in DOMAIN reqs : Complete(r)

NormSpec == Init /\ [][NormNext]_vars

Progress(r) == RouteStep(r) \/ MiddlewareReturn(r)

FairSpec == Spec /\ \A r \in {1} : WF_vars(Progress(r))

TypeOK ==
    /\ Len(routes) <= MaxRoutes
    /\ \A r \in DOMAIN reqs : reqs[r].pc \in {"idle", "scan", "mw", "done"}

----------------------------------------------------------------------------
(* Vocabulary of the properties                                            *)

\* the segments of a request path or of a pattern, as section 3 of the
\* specification defines them: split on "/", leading empty segment dropped
SegmentsOf(p) == Tail(Split(p, "/"))

\* the string s begins with the string prefix
HasPrefix(s, prefix) ==
    /\ Len(s) >= Len(prefix)
    /\ SubSeq(s, 1, Len(prefix)) = prefix

IsPlaceholder(segment) == Len(segment) >= 1 /\ segment[1] = ":"

PlaceholderName(segment) == Tail(segment)

IsExact(route) == route.Method # "USE"

Redirected(rq) == \E k \in 1..Len(rq.trace) : rq.trace[k].type = "redirect"

\* the positions of the events of a type in the trace of a request
EventsOf(rq, type) == {k \in 1..Len(rq.trace) : rq.trace[k].type = type}

\* the event at k is the return of a middleware that invoked its next
ReturnedWithNext(rq, k) ==
    /\ rq.trace[k].type = "return"
    /\ k > 1
    /\ rq.trace[k - 1].type = "next"

\* the event at k is the return of a middleware that did not invoke its next
ReturnedWithoutNext(rq, k) ==
    /\ rq.trace[k].type = "return"
    /\ k > 1
    /\ rq.trace[k - 1].type = "middleware"

\* the code's verdict on a route for a request
Matches(route, method, segments) ==
    IF route.Method = "USE"
    THEN isPrefixMatch(segments, route)
    ELSE isMatch(method, segments, route).ok

\* the request of rq satisfies the exact entry e as claim C1 words it
ExactlyFits(rq, e) ==
    LET E == routes[e]
        segs == SegmentsOf(rq.path)
        pattern == SegmentsOf(E.Path)
    IN  /\ IsExact(E)
        /\ E.Handler # NilHandler
        /\ E.Method = rq.method
        /\ Len(pattern) = Len(segs)
        /\ \A k \in 1..Len(pattern) :
               ~IsPlaceholder(pattern[k]) => pattern[k] = segs[k]
        /\ \A f \in 1..(e - 1) : ~Matches(routes[f], rq.method, segs)

HandlerCalls(rq, e) ==
    {k \in EventsOf(rq, "handler") : rq.trace[k].route = e}

----------------------------------------------------------------------------
(* C1                                                                      *)

\* C1 as stated: whenever an exact entry with a handler fits a normalized
\* request and no earlier entry matches, its handler is invoked exactly once
\* and sees one binding per ":name" segment, each mapped to the request
\* segment at the same position, and no other key.
C1_AsStated ==
    \A r \in DOMAIN reqs : \A e \in 1..Len(routes) :
        LET rq == reqs[r]
            segs == SegmentsOf(rq.path)
            pattern == SegmentsOf(routes[e].Path)
        IN  (rq.pc = "done" /\ ~Redirected(rq) /\ ExactlyFits(rq, e))
            => /\ Cardinality(HandlerCalls(rq, e)) = 1
               /\ \A h \in HandlerCalls(rq, e) :
                      LET vals == rq.trace[h].ctx.vals IN
                      /\ rq.trace[h].ctx.has
                      /\ ~vals.isNil
                      /\ DOMAIN vals.m =
                             {PlaceholderName(pattern[k]) :
                                  k \in {n \in 1..Len(pattern) : IsPlaceholder(pattern[n])}}
                      /\ \A k \in 1..Len(pattern) :
                             IsPlaceholder(pattern[k])
                                 => vals.m[PlaceholderName(pattern[k])] = segs[k]

\* every middleware of entry e that ran for rq invoked its next
ChainContinued(rq, e) ==
    \A k \in EventsOf(rq, "return") :
        rq.trace[k].route = e => ReturnedWithNext(rq, k)

\* the last position of the pattern that carries the placeholder name
LastPositionOf(pattern, name) ==
    CHOOSE k \in 1..Len(pattern) :
        /\ IsPlaceholder(pattern[k])
        /\ PlaceholderName(pattern[k]) = name
        /\ \A n \in (k + 1)..Len(pattern) :
               ~(IsPlaceholder(pattern[n]) /\ PlaceholderName(pattern[n]) = name)

\* C1 as amended: when moreover every middleware of the entry invokes its
\* next, the handler is invoked exactly once, and the bindings it sees have
\* exactly one key per distinct placeholder name of the entry, mapped to the
\* request segment at the last position that carries the name.
C1_ExactMatchInvokesHandler ==
    \A r \in DOMAIN reqs : \A e \in 1..Len(routes) :
        LET rq == reqs[r]
            segs == SegmentsOf(rq.path)
            pattern == SegmentsOf(routes[e].Path)
            names == {PlaceholderName(pattern[k]) :
                          k \in {n \in 1..Len(pattern) : IsPlaceholder(pattern[n])}}
        IN  (rq.pc = "done" /\ ~Redirected(rq) /\ ExactlyFits(rq, e)
                 /\ ChainContinued(rq, e))
            => /\ Cardinality(HandlerCalls(rq, e)) = 1
               /\ \A h \in HandlerCalls(rq, e) :
                      LET vals == rq.trace[h].ctx.vals IN
                      /\ rq.trace[h].ctx.has
                      /\ ~vals.isNil
                      /\ DOMAIN vals.m = names
                      /\ \A name \in names :
                             vals.m[name] = segs[LastPositionOf(pattern, name)]

\* an exact entry with a placeholder and a middleware was matched, its
\* middleware continued and its handler ran with a binding
C1_Witness ==
    \E r \in DOMAIN reqs : \E e \in 1..Len(routes) :
        LET rq == reqs[r] IN
        /\ rq.pc = "done"
        /\ ~Redirected(rq)
        /\ ExactlyFits(rq, e)
        /\ ChainContinued(rq, e)
        /\ Len(routes[e].Middlewares) >= 1
        /\ \E h \in HandlerCalls(rq, e) : DOMAIN rq.trace[h].ctx.vals.m # {}

----------------------------------------------------------------------------
(* C2                                                                      *)

\* C2: once a request matches an exact entry, nothing of a later entry runs
\* or is tested for it and the scan produces no Not Found: every event after
\* the successful test of an exact entry belongs to that entry.
C2_ExactMatchStopsScan ==
    \A r \in DOMAIN reqs :
        LET rq == reqs[r] IN
        \A k \in EventsOf(rq, "test") :
            (rq.trace[k].ok /\ IsExact(routes[rq.trace[k].route]))
                => \A n \in (k + 1)..Len(rq.trace) :
                       /\ rq.trace[n].route = rq.trace[k].route
                       /\ rq.trace[n].type # "notfound"

----------------------------------------------------------------------------
(* C3                                                                      *)

\* C3: a middleware that returns without having invoked its next ends the
\* dispatch: its return is the last thing that happens for the request.
C3_FinishedMiddlewareEndsDispatch ==
    \A r \in DOMAIN reqs :
        LET rq == reqs[r] IN
        \A k \in 1..Len(rq.trace) :
            ReturnedWithoutNext(rq, k)
                => /\ k = Len(rq.trace)
                   /\ rq.pc = "done"

\* a first middleware of a route with two middlewares and a handler, with a
\* later route registered, returned without invoking next
C3_Witness ==
    \E r \in DOMAIN reqs :
        LET rq == reqs[r] IN
        /\ Len(rq.trace) >= 1
        /\ ReturnedWithoutNext(rq, Len(rq.trace))
        /\ LET e == rq.trace[Len(rq.trace)].route IN
           /\ rq.trace[Len(rq.trace)].idx < Len(routes[e].Middlewares)
           /\ routes[e].Handler # NilHandler
           /\ e < Len(routes)

----------------------------------------------------------------------------
(* C4                                                                      *)

\* C4: the chain of a matched entry runs one middleware at a time in the
\* order of declaration.  The first middleware follows the successful test
\* of its entry; middleware k+1 follows the return of middleware k, which
\* invoked next; after an invocation of next only the return of the same
\* middleware follows; the handler follows the successful test (no
\* middleware) or the return of the last middleware, which invoked next, and
\* is invoked then and at most once.
C4_ChainSequential ==
    \A r \in DOMAIN reqs :
        LET rq == reqs[r]
            t == rq.trace
        IN
        /\ \A k \in EventsOf(rq, "middleware") :
               LET e == t[k].route
                   j == t[k].idx
               IN  /\ k > 1
                   /\ j \in 1..Len(routes[e].Middlewares)
                   \* the j-th middleware-shaped item the route was declared with
                   /\ t[k].fn = j
                   /\ IF j = 1
                      THEN t[k - 1].type = "test" /\ t[k - 1].ok /\ t[k - 1].route = e
                      ELSE /\ ReturnedWithNext(rq, k - 1)
                           /\ t[k - 1].route = e
                           /\ t[k - 1].idx = j - 1
        /\ \A k \in EventsOf(rq, "next") :
               /\ k > 1
               /\ t[k - 1].type = "middleware"
               /\ t[k - 1].route = t[k].route /\ t[k - 1].idx = t[k].idx
               /\ k < Len(t) =>
                      /\ t[k + 1].type = "return"
                      /\ t[k + 1].route = t[k].route /\ t[k + 1].idx = t[k].idx
        /\ \A k \in EventsOf(rq, "return") :
               /\ k > 1
               /\ t[k - 1].type \in {"middleware", "next"}
               /\ t[k - 1].route = t[k].route /\ t[k - 1].idx = t[k].idx
        /\ \A k \in EventsOf(rq, "handler") :
               LET e == t[k].route IN
               /\ k > 1
               /\ t[k].fn = routes[e].Handler
               /\ t[k - 1].route = e
               /\ IF Len(routes[e].Middlewares) = 0
                  THEN t[k - 1].type = "test" /\ t[k - 1].ok
                  ELSE /\ ReturnedWithNext(rq, k - 1)
                       /\ t[k - 1].idx = Len(routes[e].Middlewares)
               /\ Cardinality(HandlerCalls(rq, e)) = 1
        /\ \A k \in EventsOf(rq, "return") :
               LET e == t[k].route IN
               (/\ ReturnedWithNext(rq, k)
                /\ t[k].idx = Len(routes[e].Middlewares)
                /\ routes[e].Handler # NilHandler)
                   => /\ k < Len(t)
                      /\ t[k + 1].type = "handler"
                      /\ t[k + 1].route = e

\* two middlewares of one entry ran in turn, each invoking next, and then
\* the handler of the entry
C4_Witness ==
    \E r \in DOMAIN reqs :
        LET rq == reqs[r] IN
        \E h \in EventsOf(rq, "handler") :
            /\ Len(routes[rq.trace[h].route].Middlewares) = 2
            /\ h > 6
            /\ rq.trace[h - 6].type = "middleware" /\ rq.trace[h - 6].idx = 1
            /\ rq.trace[h - 3].type = "middleware" /\ rq.trace[h - 3].idx = 2

----------------------------------------------------------------------------
(* C5                                                                      *)

\* C5: a USE entry whose pattern ends in "/" matches every request path that
\* begins with the pattern string, and its middleware then runs before a
\* later entry is considered.
C5_TrailingSlashUseMatchesPrefix ==
    \A r \in DOMAIN reqs :
        LET rq == reqs[r] IN
        \A k \in EventsOf(rq, "test") :
            LET E == routes[rq.trace[k].route] IN
            (/\ ~IsExact(E)
             /\ HasSuffix(E.Path, <<"/">>)
             /\ HasPrefix(rq.path, E.Path))
                => /\ rq.trace[k].ok
                   /\ Len(E.Middlewares) >= 1 =>
                          /\ k < Len(rq.trace)
                          /\ rq.trace[k + 1].type = "middleware"
                          /\ rq.trace[k + 1].route = rq.trace[k].route

----------------------------------------------------------------------------
(* C6                                                                      *)

\* the rule of C6 for a USE pattern and the segments of a request
PrefixRule(E, segs) ==
    LET pattern == SegmentsOf(E.Path) IN
    \/ E.Path = <<"/">>
    \/ /\ Len(segs) >= Len(pattern)
       /\ \A k \in 1..Len(pattern) :
              IsPlaceholder(pattern[k]) \/ pattern[k] = segs[k]

\* C6: the test of a USE entry succeeds exactly when the pattern is "/" or
\* the request has at least as many segments as the pattern and each pattern
\* segment is a placeholder or equals the request segment at its position;
\* the test produces no bindings.
C6_PrefixMatchRule ==
    \A r \in DOMAIN reqs :
        LET rq == reqs[r] IN
        \A k \in EventsOf(rq, "test") :
            LET E == routes[rq.trace[k].route] IN
            ~IsExact(E)
                => /\ rq.trace[k].ok <=> PrefixRule(E, SegmentsOf(rq.path))
                   /\ rq.trace[k].ctx = IF k = 1 THEN NoCtx ELSE rq.trace[k - 1].ctx

----------------------------------------------------------------------------
(* C7                                                                      *)

\* the positions at which the chain of the USE entry tested at k has ended
\* with every middleware having signalled continue
ChainEnds(rq, k) ==
    LET e == rq.trace[k].route
        nm == Len(routes[e].Middlewares)
    IN  IF nm = 0 THEN {k}
        ELSE {c \in (k + 1)..Len(rq.trace) :
                  /\ ReturnedWithNext(rq, c)
                  /\ rq.trace[c].route = e
                  /\ rq.trace[c].idx = nm}

\* C7: when a USE entry matched and all of its middleware signalled continue,
\* its handler, if it has one, is invoked and the dispatch ends there; with
\* no handler the next registered entry is tested (Not Found after the last
\* entry), for any request method.
C7_UseChainContinues ==
    \A r \in DOMAIN reqs :
        LET rq == reqs[r]
            t == rq.trace
        IN
        \A k \in EventsOf(rq, "test") :
            LET e == t[k].route IN
            (~IsExact(routes[e]) /\ t[k].ok)
                => \A c \in ChainEnds(rq, k) :
                       IF routes[e].Handler # NilHandler
                       THEN /\ Len(t) = c + 1
                            /\ t[c + 1].type = "handler"
                            /\ t[c + 1].route = e
                            /\ rq.pc = "done"
                       ELSE IF c = Len(t)
                            THEN rq.pc = "scan" /\ rq.i = e + 1
                            ELSE IF e < Len(routes)
                                 THEN t[c + 1].type = "test" /\ t[c + 1].route = e + 1
                                 ELSE t[c + 1].type = "notfound"

\* a POST request matched a USE entry without a handler whose middleware
\* continued, and then the handler of a later exact entry ran
C7_Witness ==
    \E r \in DOMAIN reqs :
        LET rq == reqs[r] IN
        /\ rq.method = "POST"
        /\ \E k \in EventsOf(rq, "test") :
               /\ ~IsExact(routes[rq.trace[k].route])
               /\ rq.trace[k].ok
               /\ routes[rq.trace[k].route].Handler = NilHandler
               /\ Len(routes[rq.trace[k].route].Middlewares) >= 1
               /\ \E c \in ChainEnds(rq, k) :
                      \E h \in EventsOf(rq, "handler") :
                          h > c /\ rq.trace[h].route = rq.trace[k].route + 1

\* a GET request matched a USE entry with a handler whose middleware
\* continued, the handler ran, and a later entry was left untested
C7_WitnessHandler ==
    \E r \in DOMAIN reqs :
        LET rq == reqs[r] IN
        /\ rq.method = "GET"
        /\ \E h \in EventsOf(rq, "handler") :
               /\ ~IsExact(routes[rq.trace[h].route])
               /\ rq.trace[h].route < Len(routes)

----------------------------------------------------------------------------
(* C8                                                                      *)

\* C8: the test of an exact entry fails whenever the request has another
\* number of segments than the entry (GET /a/:x against /a/b/c and /a/b/),
\* and a request for which every test failed ends in Not Found after all
\* entries were tested.
C8_ExactNeedsSameLength ==
    \A r \in DOMAIN reqs :
        LET rq == reqs[r]
            t == rq.trace
        IN
        /\ \A k \in EventsOf(rq, "test") :
               LET E == routes[t[k].route] IN
               /\ (IsExact(E)
                      /\ Len(SegmentsOf(E.Path)) # Len(SegmentsOf(rq.path)))
                      => ~t[k].ok
               /\ (/\ IsExact(E)
                   /\ E.Path = <<"/", "a", "/", ":", "x">>
                   /\ rq.path \in { <<"/", "a", "/", "b", "/", "c">>,
                                    <<"/", "a", "/", "b", "/">> })
                      => ~t[k].ok
        /\ (/\ rq.pc = "done"
            /\ ~Redirected(rq)
            /\ \A k \in EventsOf(rq, "test") : ~t[k].ok)
               => /\ t[Len(t)].type = "notfound"
                  /\ Cardinality(EventsOf(rq, "test")) = Len(routes)
                  /\ EventsOf(rq, "middleware") = {}
                  /\ EventsOf(rq, "handler") = {}

\* GET /a/b/ was tested against the exact entry GET /a/:x, which carries a
\* handler, and ended in Not Found
C8_Witness ==
    \E r \in DOMAIN reqs :
        LET rq == reqs[r] IN
        /\ rq.pc = "done"
        /\ rq.method = "GET"
        /\ rq.path = <<"/", "a", "/", "b", "/">>
        /\ rq.trace[Len(rq.trace)].type = "notfound"
        /\ \E k \in EventsOf(rq, "test") :
               LET E == routes[rq.trace[k].route] IN
               /\ E.Method = "GET"
               /\ E.Path = <<"/", "a", "/", ":", "x">>
               /\ E.Handler # NilHandler

----------------------------------------------------------------------------
(* C9                                                                      *)

\* the normalized path as C9 words it: the cleaned path, with the trailing
\* "/" put back when the path ends in "/" and the cleaned path is not "/"
NormalizedAsClaimed(p) ==
    IF HasSuffix(p, <<"/">>) /\ Clean(p) # <<"/">>
    THEN Clean(p) \o <<"/">>
    ELSE Clean(p)

\* what cleaning is to yield on the paths with ".", ".." and doubled slashes
CleanExamples ==
    /\ Clean(<<"/", "a", "/", ".", ".", "/", "b">>) = <<"/", "b">>
    /\ Clean(<<"/", "/">>) = <<"/">>
    /\ Clean(<<"/", "a", "/", "/", "b">>) = <<"/", "a", "/", "b">>
    /\ Clean(<<"/", "a", "/", ".", "/">>) = <<"/", "a">>
    /\ Clean(<<"/", "a", "/", ".">>) = <<"/", "a">>
    /\ Clean(<<"/", ".", ".">>) = <<"/">>
    /\ Clean(<<"/", "a", "/", "b", "/">>) = <<"/", "a", "/", "b">>

\* C9: a request whose path differs from its normalized path gets a 302
\* redirect to the normalized path and nothing else happens for it; a
\* request whose path is normalized gets no redirect and is routed;
\* /a/../b is redirected to /b.
C9_RedirectToNormalizedPath ==
    \A r \in DOMAIN reqs :
        LET rq == reqs[r]
            n == NormalizedAsClaimed(rq.path)
        IN
        rq.pc # "idle"
            => /\ CleanExamples
               /\ n # rq.path =>
                      /\ rq.pc = "done"
                      /\ Len(rq.trace) = 1
                      /\ rq.trace[1].type = "redirect"
                      /\ rq.trace[1].to = n
                      /\ rq.trace[1].code = 302
               /\ n = rq.path =>
                      /\ ~Redirected(rq)
                      /\ Len(rq.trace) = 0 => rq.pc = "scan"
                      /\ Len(rq.trace) >= 1 => rq.trace[1].type \in {"test", "notfound"}
               /\ rq.path = <<"/", "a", "/", ".", ".", "/", "b">> =>
                      /\ Redirected(rq)
                      /\ rq.trace[1].to = <<"/", "b">>

\* /a/./ was redirected to /a/ although the registry holds an entry with a
\* middleware and a handler that matches every path
C9_Witness ==
    \E r \in DOMAIN reqs :
        LET rq == reqs[r] IN
        /\ rq.pc = "done"
        /\ rq.path = <<"/", "a", "/", ".", "/">>
        /\ Redirected(rq)
        /\ rq.trace[1].to = <<"/", "a", "/">>
        /\ \E e \in 1..Len(routes) :
               /\ routes[e].Path = <<"/">>
               /\ routes[e].Method = "USE"
               /\ Len(routes[e].Middlewares) >= 1
               /\ routes[e].Handler # NilHandler

\* a path with a trailing slash that is its own normalized path was routed
C9_WitnessRouted ==
    \E r \in DOMAIN reqs :
        LET rq == reqs[r] IN
        /\ rq.path = <<"/", "a", "/", "b", "/">>
        /\ EventsOf(rq, "handler") # {}

----------------------------------------------------------------------------
(* C10                                                                     *)

\* the terminal outcomes of a request: a redirect, a middleware that
\* finished the request, a handler invocation, Not Found
Outcomes(rq) ==
    EventsOf(rq, "redirect") \cup EventsOf(rq, "handler")
        \cup EventsOf(rq, "notfound")
        \cup {k \in 1..Len(rq.trace) : ReturnedWithoutNext(rq, k)}

OneOutcome ==
    \A r \in DOMAIN reqs :
        LET rq == reqs[r]
            t == rq.trace
            segs == SegmentsOf(rq.path)
        IN
        /\ rq.pc # "done" => Outcomes(rq) = {}
        /\ rq.pc = "done" =>
               /\ Outcomes(rq) = {Len(t)}
               /\ EventsOf(rq, "notfound") # {}
                      <=> /\ ~Redirected(rq)
                          /\ EventsOf(rq, "handler") = {}
                          /\ \A k \in 1..Len(t) : ~ReturnedWithoutNext(rq, k)
               /\ (/\ ~Redirected(rq)
                   /\ \A e \in 1..Len(routes) : ~Matches(routes[e], rq.method, segs))
                      => /\ t[Len(t)].type = "notfound"
                         /\ EventsOf(rq, "middleware") = {}
                         /\ EventsOf(rq, "handler") = {}

\* C10: every dispatch ends, and it ends with exactly one terminal outcome,
\* which is its last event; Not Found is that outcome exactly when there was
\* no redirect, no middleware that finished the request and no handler
\* invocation, and always when no entry matches.
C10_DispatchEndsWithOneOutcome ==
    /\ []OneOutcome
    /\ \A r \in {1} : (reqs[r].pc \in {"scan", "mw"}) ~> (reqs[r].pc = "done")

\* a dispatch ended in Not Found after a matched entry ran a middleware that
\* signalled continue
C10_Witness ==
    \E r \in DOMAIN reqs :
        LET rq == reqs[r] IN
        /\ rq.pc = "done"
        /\ rq.trace[Len(rq.trace)].type = "notfound"
        /\ \E k \in 1..Len(rq.trace) : ReturnedWithNext(rq, k)

-----------------------------------------------------------------------------
(* Registration                                                            *)

\* the three validation errors of registration
ValidationErrors ==
    {"ErrMiddlewareAfterHandler", "ErrMultipleHandlers", "ErrUnknownTypeInRoute"}

IsMiddlewareShaped(thing) == thing = "middleware"
IsHandlerShaped(thing) == thing \in {"Handler", "HandlerFunc"}

\* item k breaks a rule of registration, given the items before it
Offends(things, k) ==
    \/ ~IsMiddlewareShaped(things[k]) /\ ~IsHandlerShaped(things[k])
    \/ \E j \in 1..(k - 1) : IsHandlerShaped(things[j])

\* the position of the first offending item, 0 when no item offends
FirstOffence(things) ==
    IF \E k \in 1..Len(things) : Offends(things, k)
    THEN CHOOSE k \in 1..Len(things) :
             /\ Offends(things, k)
             /\ \A j \in 1..(k - 1) : ~Offends(things, j)
    ELSE 0

\* the error the first offending item decides
DecidedBy(things) ==
    LET k == FirstOffence(things) IN
    IF k = 0 THEN "nil"
    ELSE IF IsHandlerShaped(things[k]) THEN "ErrMultipleHandlers"
    ELSE IF IsMiddlewareShaped(things[k]) THEN "ErrMiddlewareAfterHandler"
    ELSE "ErrUnknownTypeInRoute"

\* zero or more middleware followed by at most one handler
WellFormed(things) ==
    \E n \in 0..Len(things) :
        /\ \A k \in 1..n : IsMiddlewareShaped(things[k])
        /\ \/ Len(things) = n
           \/ Len(things) = n + 1 /\ IsHandlerShaped(things[n + 1])

\* a call of add has returned, without a panic
Validated == call # NoCall /\ call.err # "panic"

\* C11: registration validates the items in argument order and the first
\* offending item decides the error: a second handler-shaped item gives
\* ErrMultipleHandlers, a middleware-shaped item after the handler gives
\* ErrMiddlewareAfterHandler, an item of neither shape gives
\* ErrUnknownTypeInRoute; a list of zero or more middleware followed by at
\* most one handler gives no error.
C11_FirstOffendingItemDecides ==
    Validated =>
        /\ call.err = DecidedBy(call.things)
        /\ WellFormed(call.things) => call.err = "nil"

\* a list with two offences, a middleware after the handler and then a second
\* handler, was rejected for the first of them
C11_Witness ==
    /\ call # NoCall
    /\ call.things = <<"Handler", "middleware", "HandlerFunc">>
    /\ call.err = "ErrMiddlewareAfterHandler"

\* a list of two middleware and a handler was accepted
C11_WitnessAccepted ==
    /\ call # NoCall
    /\ call.things = <<"middleware", "middleware", "Handler">>
    /\ call.err = "nil"

\* C12: a registration call that fails with one of the three validation
\* errors leaves the registry as it was, so what requests are dispatched over
\* afterwards is what it was before the call.
C12_FailedRegistrationKeepsRegistry ==
    [][(call' # NoCall /\ call'.err \in ValidationErrors)
           => (routes' = routes /\ reqs' = reqs)]_vars

\* a call was rejected while the registry already held an entry
C12_Witness ==
    /\ call # NoCall
    /\ call.err \in ValidationErrors
    /\ Len(routes) = 1

-----------------------------------------------------------------------------
(* Trailing slashes                                                        *)

\* the path p without its trailing slash, p itself when it has none
Unslashed(p) ==
    IF Len(p) > 1 /\ HasSuffix(p, <<"/">>) THEN SubSeq(p, 1, Len(p) - 1) ELSE p

\* p is a clean path other than "/", or such a path with a slash appended
CleanOrSlashed(p) ==
    LET base == Unslashed(p)
    IN  base # <<"/">> /\ Clean(base) = base

\* the patterns p and q differ by one trailing slash
SlashTwins(p, q) == p # q /\ Unslashed(p) = Unslashed(q)

\* C13: slash and non-slash paths are distinct and neither is redirected to
\* the other: for a clean path p other than "/", the request of p and the
\* request of p + "/" are both routed without a redirect, and an exact entry
\* registered for one of them does not match the other.
C13_SlashAndNonSlashDistinct ==
    \A r \in DOMAIN reqs :
        LET rq == reqs[r] IN
        (rq.pc # "idle" /\ CleanOrSlashed(rq.path)) =>
            /\ ~Redirected(rq)
            /\ \A k \in EventsOf(rq, "test") :
                   LET E == routes[rq.trace[k].route] IN
                   (IsExact(E) /\ SlashTwins(E.Path, rq.path))
                       => ~rq.trace[k].ok

\* the request of "/a/" passed over the exact entry of "/a" and was matched
\* by the exact entry of "/a/"
C13_Witness ==
    \E r \in DOMAIN reqs :
        LET rq == reqs[r] IN
        /\ rq.path = <<"/", "a", "/">>
        /\ ~Redirected(rq)
        /\ \E k1, k2 \in EventsOf(rq, "test") :
               /\ IsExact(routes[rq.trace[k1].route])
               /\ routes[rq.trace[k1].route].Path = <<"/", "a">>
               /\ ~rq.trace[k1].ok
               /\ IsExact(routes[rq.trace[k2].route])
               /\ routes[rq.trace[k2].route].Path = <<"/", "a", "/">>
               /\ rq.trace[k2].ok

\* the pattern does not begin with "/"
BadPath(path) == ~HasPrefix(path, <<"/">>)

\* C14: registering, for a verb or for USE, a path pattern that does not
\* begin with "/" panics; the panic comes before the items are validated,
\* whatever they are, and leaves the registry as it was.
C14_BadPathPanics ==
    /\ []((call # NoCall /\ BadPath(call.path))
              => (call.err = "panic" /\ ret = "panic"))
    /\ [][(call' # NoCall /\ BadPath(call'.path)) => routes' = routes]_vars

\* Use was called with a bad path and two handlers while the registry held
\* an entry, and panicked
C14_Witness ==
    /\ call # NoCall
    /\ call.method = "USE"
    /\ BadPath(call.path)
    /\ call.things = <<"Handler", "Handler">>
    /\ ret = "panic"
    /\ Len(routes) = 1

-----------------------------------------------------------------------------
(* USE entries and the length of the request                               *)

\* C15: a USE entry whose pattern has more segments than the request never
\* matches, unless its pattern is "/": Use("/a/") does not match /a. A USE
\* entry whose pattern has no trailing slash matches the identical path, the
\* path with a trailing slash and every deeper path.
C15_UseLongerThanRequestNeverMatches ==
    \A r \in DOMAIN reqs :
        LET rq == reqs[r] IN
        \A k \in EventsOf(rq, "test") :
            LET E == routes[rq.trace[k].route] IN
            ~IsExact(E) =>
                /\ (/\ E.Path # <<"/">>
                    /\ Len(SegmentsOf(E.Path)) > Len(SegmentsOf(rq.path)))
                       => ~rq.trace[k].ok
                /\ E.Path = rq.path \o <<"/">> => ~rq.trace[k].ok
                /\ (/\ ~HasSuffix(E.Path, <<"/">>)
                    /\ \/ rq.path = E.Path
                       \/ HasPrefix(rq.path, E.Path \o <<"/">>))
                       => rq.trace[k].ok

\* the request of "/a" was passed over by the USE entry of "/a/" and matched
\* by the USE entry of "/a"
C15_Witness ==
    \E r \in DOMAIN reqs :
        LET rq == reqs[r] IN
        /\ rq.path = <<"/", "a">>
        /\ \E k1, k2 \in EventsOf(rq, "test") :
               /\ ~IsExact(routes[rq.trace[k1].route])
               /\ routes[rq.trace[k1].route].Path = <<"/", "a", "/">>
               /\ ~rq.trace[k1].ok
               /\ ~IsExact(routes[rq.trace[k2].route])
               /\ routes[rq.trace[k2].route].Path = <<"/", "a">>
               /\ rq.trace[k2].ok

\* the request of "/a/b/c" was matched by the USE entry of "/a"
C15_WitnessDeeper ==
    \E r \in DOMAIN reqs :
        LET rq == reqs[r] IN
        /\ rq.path = <<"/", "a", "/", "b", "/", "c">>
        /\ \E k \in EventsOf(rq, "test") :
               /\ ~IsExact(routes[rq.trace[k].route])
               /\ routes[rq.trace[k].route].Path = <<"/", "a">>
               /\ rq.trace[k].ok

-----------------------------------------------------------------------------
(* The item lists of the ReadMe                                            *)

\* the item lists of the usage example of the ReadMe: nil or a slice of
\* middleware, then the handler
ReadMeThings ==
    { <<"nil", "Handler">>, <<"middlewareSlice", "Handler">> }

\* C16: the item lists the ReadMe registers with, Get(path, nil, handler) and
\* Get(path, <slice of middleware>, handler), each return no error and add a
\* route that carries the handler.
C16_ReadMeItemListsAccepted ==
    (/\ call # NoCall
     /\ call.method = "GET"
     /\ ~BadPath(call.path)
     /\ call.things \in ReadMeThings)
        => /\ ret = "nil"
           /\ Len(routes) > 0
           /\ routes[Len(routes)].Path = call.path
           /\ routes[Len(routes)].Handler # NilHandler

-----------------------------------------------------------------------------
(* The request's context                                                   *)

\* the context of the request of rq before the event at k
CtxBefore(rq, k) == IF k = 1 THEN NoCtx ELSE rq.trace[k - 1].ctx

\* the context at the event at k holds the bindings of an exact entry that
\* matched this request before
BindingsOfMatchedEntry(rq, k) ==
    \E t \in EventsOf(rq, "test") :
        /\ t < k
        /\ IsExact(routes[rq.trace[t].route])
        /\ rq.trace[t].ok
        /\ rq.trace[t].ctx = rq.trace[k].ctx

\* C17: testing an entry that does not match leaves the context of the
\* request as it was; bindings are stored only when an exact entry matches,
\* so when a middleware or a handler runs the context holds the bindings of
\* an exact entry that matched this request, or none at all.
C17_MismatchLeavesContext ==
    \A r \in DOMAIN reqs :
        LET rq == reqs[r] IN
        /\ \A k \in EventsOf(rq, "test") :
               ~rq.trace[k].ok => rq.trace[k].ctx = CtxBefore(rq, k)
        /\ \A k \in EventsOf(rq, "middleware") \cup EventsOf(rq, "handler") :
               \/ rq.trace[k].ctx = NoCtx
               \/ BindingsOfMatchedEntry(rq, k)

-----------------------------------------------------------------------------
(* What the caller of a registration method gets back                      *)

\* C18: every registration call of the public surface, Get, Post, Put, Patch,
\* Delete, Options, Head and Use, reports a validation failure to its caller:
\* the call gives back the error add decided on.
C18_FailureReportedToCaller ==
    (call # NoCall /\ call.err \in ValidationErrors) => ret = call.err

-----------------------------------------------------------------------------
(* The registry                                                            *)

\* every entry's segments are its pattern split on "/" with the leading
\* empty segment dropped, and its length field counts them
RegistryWellFormed ==
    \A e \in 1..Len(routes) :
        /\ routes[e].Segments = SegmentsOf(routes[e].Path)
        /\ routes[e].Length = Len(routes[e].Segments)

\* the step is a registration call that succeeded
Registered == call' # NoCall /\ call'.err = "nil"

\* C20: every entry of the registry has for segments its pattern split on "/"
\* with the leading empty segment dropped and for length their number; each
\* successful registration appends exactly one entry at the end, the earlier
\* entries keeping their content and their order, and nothing else changes
\* the registry.
C20_RegistryAppendOnly ==
    /\ []RegistryWellFormed
    /\ [][Registered =>
             /\ Len(routes') = Len(routes) + 1
             /\ SubSeq(routes', 1, Len(routes)) = routes
             /\ routes'[Len(routes')].Method = call'.method
             /\ routes'[Len(routes')].Path = call'.path]_vars
    /\ [][routes' # routes => Registered]_vars

\* a second entry, with a placeholder, was appended behind the first
C20_Witness ==
    /\ call # NoCall
    /\ call.err = "nil"
    /\ Len(routes) = 2
    /\ routes[1].Path = <<"/", "a", "/">>
    /\ routes[2].Method = "PUT"
    /\ routes[2].Segments = << <<"a">>, <<":", "x">> >>

-----------------------------------------------------------------------------
(* Concurrent requests                                                     *)

\* the dispatch of the request of rq alone over the registry, its middleware
\* deciding as they did for rq, as far as rq has come
RECURSIVE Alone(_, _)
Alone(cur, rq) ==
    IF cur.pc = "done" \/ Len(cur.trace) >= Len(rq.trace)
    THEN cur
    ELSE IF cur.pc = "scan"
         THEN Alone(TestRoute(cur, routes), rq)
         ELSE IF cur.finished /\ rq.trace[Len(cur.trace) + 1].type = "next"
              THEN Alone(next(cur), rq)
              ELSE Alone(AfterMiddleware(cur, routes), rq)

\* the request of rq is where its dispatch alone would be, with the same
\* events, the same bindings and the same flag
AsAlone(rq) == rq.pc # "idle" => Alone(Begin(rq.method, rq.path), rq) = rq

\* C19: dispatch never modifies the registry, and two requests dispatched
\* concurrently over the same registry each get, under every interleaving of
\* their steps, the outcome and the bindings they get when dispatched alone:
\* the bindings and the flag of one are never visible to the other.
C19_ConcurrentRequestsIndependent ==
    /\ [](\A r \in DOMAIN reqs : AsAlone(reqs[r]))
    /\ [][routes' = routes]_vars

\* two requests are inside middleware at once, one with bindings and its flag
\* cleared, the other without bindings and its flag set
C19_Witness ==
    /\ reqs[1].pc = "mw"
    /\ reqs[2].pc = "mw"
    /\ reqs[1].ctx.has /\ ~reqs[1].ctx.vals.isNil
    /\ ~reqs[2].ctx.has
    /\ ~reqs[1].finished
    /\ reqs[2].finished
    /\ Len(reqs[1].trace) > 2

-----------------------------------------------------------------------------
(* Normalization applied twice                                             *)

\* C21: path normalization is idempotent: for every request path p the
\* normalized path of the normalized path of p is the normalized path of p,
\* so a request of the target of a redirect is not redirected but routed:
\* following the redirects takes at most one hop.
C21_NormalizationIdempotent ==
    \A r \in DOMAIN reqs :
        LET rq == reqs[r] IN
        rq.pc # "idle" =>
            /\ NormPath(NormPath(rq.path)) = NormPath(rq.path)
            /\ \A k \in EventsOf(rq, "redirect") :
                   LET follow == Begin(rq.method, rq.trace[k].to) IN
                   /\ rq.trace[k].to = NormPath(rq.path)
                   /\ ~Redirected(follow)
                   /\ follow.pc = "scan"
                   /\ follow.path = rq.trace[k].to

\* the request of "/./a/" was redirected to "/a/"
C21_Witness ==
    \E r \in DOMAIN reqs :
        LET rq == reqs[r] IN
        /\ rq.path = <<"/", ".", "/", "a", "/">>
        /\ Redirected(rq)
        /\ rq.trace[1].to = <<"/", "a", "/">>

\* the request of the unrooted path "a/../" was redirected to "./"
C21_WitnessUnrooted ==
    \E r \in DOMAIN reqs :
        LET rq == reqs[r] IN
        /\ rq.path = <<"a", "/", ".", ".", "/">>
        /\ Redirected(rq)
        /\ rq.trace[1].to = <<".", "/">>

====
